---- MODULE Spec2Model ----
(***************************************************************************)
(* A model of the test-reactor guest (src/guest/src/lib.rs) and of the     *)
(* host harness that drives it (src/host/src/main.rs).                     *)
(*                                                                         *)
(* A string is the sequence of its bytes; every byte is written as a       *)
(* one-character string, so "hello" is <<"h","e","l","l","o">>.  All the    *)
(* strings of the model are ASCII, for which String::as_bytes and          *)
(* String::from_utf8_lossy leave the byte sequence as it is.               *)
(***************************************************************************)
EXTENDS Integers, Sequences, FiniteSets, TLC

VARIABLES
    State,      \* guest: the static Vec<String> (its name in the source is a reserved word here)
    inputs,     \* history: every string handed to add_strings so far, in order
    call,       \* the export call in progress on the store, or the last one returned
    active,     \* number of export calls in progress on the store
    sink,       \* the output stream the host last pushed into the table
    pc,         \* harness: where main stands
    reader,     \* harness: the task spawned by demo_async_output_stream
    frames,     \* harness: what the reader task has printed as "stream read"
    prev,       \* history: argument and result of the pass_an_imported_record call before
    table,      \* the store's table: the handles of the output streams pushed into it
    trace,      \* harness history: the export calls main has made, each with its outcome
    result      \* harness: what main has ended with, "none" while it runs

vars == <<State, inputs, call, active, sink, pc, reader, frames, prev, table, trace, result>>

\* What only the harness and the record calls change.
hvars == <<pc, reader, frames, prev, trace, result>>

--------------------------------------------------------------------------
(* Bounds of the model *)

MaxStored == 3      \* add_strings is not called once State would exceed this
MaxList   == 2      \* longest list handed to one add_strings call
PipeCap   == 8      \* capacity of the pipes the host makes in Spec
MaxStreams == 2     \* output streams the host pushes into the table in Spec

--------------------------------------------------------------------------
(* Strings *)

Dollar  == "$"
Newline == "\n"

hello      == <<"h","e","l","l","o">>
gussie     == <<"g","u","s","s","i","e">>
willa      == <<"w","i","l","l","a">>
undefined  == <<"u","n","d","e","f","i","n","e","d">>
plain      == <<"p","l","a","i","n">>
also_tail  == <<"a","l","s","o","$","t","a","i","l">>
GOOD_DOG   == <<"G","O","O","D","_","D","O","G">>
POUTY_DOG  == <<"P","O","U","T","Y","_","D","O","G">>
NOPE       == <<"N","O","P","E">>
d_GOOD_DOG  == <<Dollar>> \o GOOD_DOG
d_POUTY_DOG == <<Dollar>> \o POUTY_DOG
d_NOPE      == <<Dollar>> \o NOPE
empty       == <<>>
d_only      == <<Dollar>>
dd_GOOD_DOG == <<Dollar, Dollar>> \o GOOD_DOG
d_GOOD_DOG_d_x == <<Dollar>> \o GOOD_DOG \o <<Dollar, "x">>

\* The strings a caller hands to add_strings.
InputStrings == {hello, plain, also_tail, d_GOOD_DOG, d_POUTY_DOG, d_NOPE}

\* Strings for add_strings with no, one and several "$", in front and inside.
DollarStrings == {empty, hello, also_tail, d_only, d_GOOD_DOG, dd_GOOD_DOG, d_GOOD_DOG_d_x}

DollarLists(n) == UNION {[1..k -> DollarStrings] : k \in 0..n}

\* Lists of at most n input strings.
InputLists(n) == UNION {[1..k -> InputStrings] : k \in 0..n}

Min(a, b) == IF a < b THEN a ELSE b

--------------------------------------------------------------------------
(* The guest's environment, as setup seeds it *)

Env == {[name |-> GOOD_DOG, val |-> gussie], [name |-> POUTY_DOG, val |-> willa]}

\* A lookup that keeps the "$" in front of the name it looks up.
env_var_keeps_dollar(name) ==
    IF \E b \in Env : b.name = <<Dollar>> \o name
    THEN [ok |-> TRUE, val |-> (CHOOSE b \in Env : b.name = <<Dollar>> \o name).val]
    ELSE [ok |-> FALSE, val |-> <<>>]

\* std::env::var(name): Ok(val) when name is bound, Err otherwise.
env_var(name) ==
    IF \E b \in Env : b.name = name
    THEN [ok |-> TRUE, val |-> (CHOOSE b \in Env : b.name = name).val]
    ELSE [ok |-> FALSE, val |-> <<>>]

--------------------------------------------------------------------------
(* add_strings *)

\* Index of the last "$" of s, or 0 when s holds none.
LastDollar(s) ==
    IF \E i \in 1..Len(s) : s[i] = Dollar
    THEN CHOOSE i \in 1..Len(s) : s[i] = Dollar /\ \A j \in (i+1)..Len(s) : s[j] # Dollar
    ELSE 0

\* Index of the first "$" of s, or 0 when s holds none.
FirstDollar(s) ==
    IF \E i \in 1..Len(s) : s[i] = Dollar
    THEN CHOOSE i \in 1..Len(s) : s[i] = Dollar /\ \A j \in 1..(i-1) : s[j] # Dollar
    ELSE 0

\* s.split_once("$"): None, or Some((prefix, var)) around the first "$".
split_once(s) ==
    LET i == FirstDollar(s) IN
    IF i = 0
    THEN [some |-> FALSE, prefix |-> <<>>, var |-> <<>>]
    ELSE [some |-> TRUE, prefix |-> SubSeq(s, 1, i-1), var |-> SubSeq(s, i+1, Len(s))]

\* The guard "if prefix.is_empty()" is left out: the first arm is taken for
\* every "$", whatever stands in front of it.
Pushed_no_prefix_guard(s) ==
    LET sp == split_once(s) IN
    IF sp.some
    THEN LET v == env_var(sp.var) IN
         IF v.ok THEN <<v.val>> ELSE <<undefined>>
    ELSE <<s>>

\* An unbound name pushes nothing.
Pushed_skips_unbound(s) ==
    LET sp == split_once(s) IN
    IF sp.some /\ sp.prefix = <<>>
    THEN LET v == env_var(sp.var) IN
         IF v.ok THEN <<v.val>> ELSE <<>>
    ELSE <<s>>

\* The entries one input string pushes onto State (the match of lines 12-18).
Pushed(s) ==
    LET sp == split_once(s) IN
    IF sp.some /\ sp.prefix = <<>>
    THEN LET v == env_var(sp.var) IN
         IF v.ok THEN <<v.val>> ELSE <<undefined>>
    ELSE <<s>>

\* The loop walks the list from its end.
RECURSIVE PushAll_backwards(_, _)
PushAll_backwards(st, ss) ==
    IF ss = <<>> THEN st
    ELSE PushAll_backwards(st \o Pushed(ss[Len(ss)]), SubSeq(ss, 1, Len(ss) - 1))

\* The for loop of add_strings: the inputs are taken in list order.
RECURSIVE PushAll(_, _)
PushAll(st, ss) ==
    IF ss = <<>> THEN st ELSE PushAll(st \o Pushed(Head(ss)), Tail(ss))

\* The value returned counts the strings of this call only.
add_strings_result_counts_call(st, ss) ==
    LET after == PushAll(st, ss) IN
    [state |-> after, ret |-> Len(ss)]

\* The new entries are put in front of the ones held.
add_strings_result_in_front(st, ss) ==
    LET after == PushAll(<<>>, ss) \o st IN
    [state |-> after, ret |-> Len(after)]

\* add_strings as a function of the state before: the state after and the value
\* returned.  The guest is built for a 32-bit target, where the length (a usize)
\* already has 32 bits, so "as u32" keeps its value.
add_strings_result(st, ss) ==
    LET after == PushAll(st, ss) IN
    [state |-> after, ret |-> Len(after)]

\* get_strings: a clone of State.
get_strings_result(st) == st

--------------------------------------------------------------------------
(* write_strings_to and the output streams it writes to *)

\* No newline is put after the string.
Output_without_newline(s) == s

\* format!("{s}\n") and as_bytes: the bytes of one stored string and a newline.
Output(s) == s \o <<Newline>>

NoSink == [kind |-> "none", cap |-> 0, buf |-> <<>>, recv |-> <<>>,
           ropen |-> FALSE, wopen |-> FALSE, ix |-> 0]

\* preview2::pipe::MemoryOutputPipe::new(): recv is what contents() returns.
MemoryOutputPipe == [NoSink EXCEPT !.kind = "memory", !.wopen = TRUE]

\* tokio::io::duplex(cap) with the write end wrapped in an AsyncWriteStream: buf
\* holds the bytes in the pipe that the read end has not taken yet, recv every
\* byte the write end has accepted.
DuplexPipe(cap) == [NoSink EXCEPT !.kind = "pipe", !.cap = cap,
                                  !.ropen = TRUE, !.wopen = TRUE]

\* One wasi::io::streams::write of bytes to the stream s.  The memory pipe takes
\* all the bytes.  The duplex pipe fails once its read end is gone, makes the
\* writer wait while it is full, and otherwise takes as many bytes as it has room
\* for and reports their number.
StreamWrite(s, bytes) ==
    IF s.kind = "memory"
    THEN [status |-> "ok", n |-> Len(bytes), sink |-> [s EXCEPT !.recv = @ \o bytes]]
    ELSE IF ~s.ropen
    THEN [status |-> "err", n |-> 0, sink |-> s]
    ELSE IF Len(s.buf) = s.cap
    THEN [status |-> "pending", n |-> 0, sink |-> s]
    ELSE LET n == Min(s.cap - Len(s.buf), Len(bytes)) IN
         [status |-> "ok", n |-> n,
          sink |-> [s EXCEPT !.buf = @ \o SubSeq(bytes, 1, n),
                             !.recv = @ \o SubSeq(bytes, 1, n)]]

--------------------------------------------------------------------------
(* pass_an_imported_record and the stat record *)

MaxChanged == 2     \* fields in which a record handed to the guest differs from the demo's

Datetime(s, ns) == [seconds |-> s, nanoseconds |-> ns]

\* The record demo_wasi_structures builds.
DemoStat ==
    [data_access_timestamp       |-> Datetime(45, 123),
     data_modification_timestamp |-> Datetime(10, 789),
     device     |-> 0,
     inode      |-> 0,
     link_count |-> 0,
     size       |-> 0,
     status_change_timestamp     |-> Datetime(1, 0),
     type_      |-> "Unknown"]

NoStat == [DemoStat EXCEPT !.type_ = "none"]

\* The cases of descriptor-type, in the order of the interface.
DescriptorTypes == <<"Unknown", "BlockDevice", "CharacterDevice", "Directory",
                     "Fifo", "SymbolicLink", "RegularFile", "Socket">>

\* The record with its k-th field set to another value.
Changed(st, k) ==
    CASE k = 1  -> [st EXCEPT !.device = 1]
      [] k = 2  -> [st EXCEPT !.inode = 1]
      [] k = 3  -> [st EXCEPT !.type_ = "Directory"]
      [] k = 4  -> [st EXCEPT !.link_count = 1]
      [] k = 5  -> [st EXCEPT !.size = 10]
      [] k = 6  -> [st EXCEPT !.data_access_timestamp.seconds = 4]
      [] k = 7  -> [st EXCEPT !.data_access_timestamp.nanoseconds = 5123]
      [] k = 8  -> [st EXCEPT !.data_modification_timestamp.seconds = 1]
      [] k = 9  -> [st EXCEPT !.data_modification_timestamp.nanoseconds = 78]
      [] k = 10 -> [st EXCEPT !.status_change_timestamp.seconds = 10]
      [] k = 11 -> [st EXCEPT !.status_change_timestamp.nanoseconds = 1]

RECURSIVE ChangedAll(_, _)
ChangedAll(st, ks) ==
    IF ks = {} THEN st
    ELSE LET k == CHOOSE x \in ks : \A y \in ks : x <= y IN
         ChangedAll(Changed(st, k), ks \ {k})

\* The records the host hands to pass_an_imported_record.
StatPool ==
    {ChangedAll(DemoStat, ks) : ks \in {s \in SUBSET (1..11) : Cardinality(s) <= MaxChanged}}

\* Lowering of the record to its flat slots, the fields in the order of the
\* interface, the enum as the index of its case.
Lower(st) ==
    <<st.device, st.inode,
      CHOOSE i \in 1..Len(DescriptorTypes) : DescriptorTypes[i] = st.type_,
      st.link_count, st.size,
      st.data_access_timestamp.seconds, st.data_access_timestamp.nanoseconds,
      st.data_modification_timestamp.seconds, st.data_modification_timestamp.nanoseconds,
      st.status_change_timestamp.seconds, st.status_change_timestamp.nanoseconds>>

\* Lifting of the flat slots to the record the guest body sees.
Lift(f) ==
    [data_access_timestamp       |-> Datetime(f[6], f[7]),
     data_modification_timestamp |-> Datetime(f[8], f[9]),
     device     |-> f[1],
     inode      |-> f[2],
     link_count |-> f[4],
     size       |-> f[5],
     status_change_timestamp     |-> Datetime(f[10], f[11]),
     type_      |-> DescriptorTypes[f[3]]]

DigitChars == <<"0", "1", "2", "3", "4", "5", "6", "7", "8", "9">>

\* The decimal digits of n, as Debug prints an unsigned integer.
RECURSIVE Digits(_)
Digits(n) ==
    IF n < 10 THEN <<DigitChars[n + 1]>>
    ELSE Digits(n \div 10) \o <<DigitChars[(n % 10) + 1]>>

DebugDatetime(d) ==
    <<"Datetime", " { ", "seconds", ": ">> \o Digits(d.seconds) \o
    <<", ", "nanoseconds", ": ">> \o Digits(d.nanoseconds) \o <<" }">>

\* {:?} of the record as the generated bindings print it: the name of the type
\* and every field by name, in the order of the interface.
DebugStat(st) ==
    <<"DescriptorStat", " { ", "device", ": ">> \o Digits(st.device) \o
    <<", ", "inode", ": ">> \o Digits(st.inode) \o
    <<", ", "type", ": ", "DescriptorType::", st.type_>> \o
    <<", ", "link-count", ": ">> \o Digits(st.link_count) \o
    <<", ", "size", ": ">> \o Digits(st.size) \o
    <<", ", "data-access-timestamp", ": ">> \o DebugDatetime(st.data_access_timestamp) \o
    <<", ", "data-modification-timestamp", ": ">>
        \o DebugDatetime(st.data_modification_timestamp) \o
    <<", ", "status-change-timestamp", ": ">>
        \o DebugDatetime(st.status_change_timestamp) \o
    <<" }">>

\* Only the timestamps are printed, their numbers one after the other.
pass_an_imported_record_result_timestamps_only(stat) ==
    Digits(stat.data_access_timestamp.seconds)
        \o Digits(stat.data_access_timestamp.nanoseconds)
        \o Digits(stat.data_modification_timestamp.seconds)
        \o Digits(stat.data_modification_timestamp.nanoseconds)
        \o Digits(stat.status_change_timestamp.seconds)
        \o Digits(stat.status_change_timestamp.nanoseconds)

\* pass_an_imported_record: format!("{stat:?}")
pass_an_imported_record_result(stat) == DebugStat(stat)

\* table.push_output_stream(Box::new(s)): the stream goes into the table t under
\* the next free index, which is the handle the guest is given.
push_output_stream(s, t) ==
    [sink |-> [s EXCEPT !.ix = Cardinality(t)], table |-> t \cup {Cardinality(t)}]

--------------------------------------------------------------------------
(* Export calls *)

Idle == [op |-> "none", phase |-> "returned", ss |-> <<>>, before |-> 0,
         n |-> 0, list |-> <<>>, i |-> 0, res |-> "none",
         arg |-> NoStat, stat |-> NoStat, expected |-> <<>>, str |-> <<>>,
         failed |-> FALSE, o |-> 0, writes |-> <<>>]

NoReader == [st |-> "none", buffer |-> <<>>, bs |-> ""]

NoRecordCall == [made |-> FALSE, arg |-> NoStat, str |-> <<>>]

\* The typed invoker enters the guest: an export call is in progress on the store.
BeginCall(op, ss) ==
    /\ active' = active + 1
    /\ call' = [Idle EXCEPT !.op = op, !.phase = "running", !.ss = ss,
                            !.before = Len(State)]

\* The same for write_strings_to, which is handed the handle o.
BeginWriteStringsTo(o) ==
    /\ active' = active + 1
    /\ call' = [Idle EXCEPT !.op = "write_strings_to", !.phase = "running",
                            !.before = Len(State), !.o = o]

\* The guest body of add_strings runs and the call returns.
add_strings ==
    /\ call.op = "add_strings" /\ call.phase = "running"
    /\ LET r == add_strings_result(State, call.ss) IN
          /\ State' = r.state
          /\ call' = [call EXCEPT !.phase = "returned", !.n = r.ret]
    /\ inputs' = inputs \o call.ss
    /\ active' = active - 1
    /\ UNCHANGED <<sink, table, hvars>>

\* get_strings hands out the stored strings themselves and leaves none behind.
get_strings_takes ==
    /\ call.op = "get_strings" /\ call.phase = "running"
    /\ call' = [call EXCEPT !.phase = "returned", !.list = get_strings_result(State)]
    /\ State' = <<>>
    /\ active' = active - 1
    /\ UNCHANGED <<inputs, sink, table, hvars>>

\* The guest body of get_strings runs and the call returns.
get_strings ==
    /\ call.op = "get_strings" /\ call.phase = "running"
    /\ call' = [call EXCEPT !.phase = "returned", !.list = get_strings_result(State)]
    /\ active' = active - 1
    /\ UNCHANGED <<State, inputs, sink, table, hvars>>

\* write_strings_to, entry: the loop is over a clone of the stored strings.
write_strings_to_enter ==
    /\ call.op = "write_strings_to" /\ call.phase = "running" /\ call.i = 0
    /\ call' = [call EXCEPT !.list = get_strings_result(State), !.i = 1]
    /\ UNCHANGED <<State, inputs, active, sink, table, hvars>>

\* What a short write left over is offered before the string of this turn.
Offered_retries(c) ==
    IF c.writes # <<>> /\ c.writes[Len(c.writes)].n < Len(c.writes[Len(c.writes)].bytes)
    THEN SubSeq(c.writes[Len(c.writes)].bytes, c.writes[Len(c.writes)].n + 1,
                Len(c.writes[Len(c.writes)].bytes))
    ELSE Output(c.list[c.i])

\* The strings are gone through from the last to the first.
Offered_backwards(c) == Output(c.list[Len(c.list) + 1 - c.i])

\* The bytes the loop offers to the stream in its turn for the string c.i.
Offered(c) == Output(c.list[c.i])

\* An entry of the history of the stream writes of a call.
Written(bytes, w) == [bytes |-> bytes, status |-> w.status, n |-> w.n]

\* The loop goes on to the next string after a failed write, and returns the
\* error at the last string.
LoopTurn_keeps_going(c, bytes, w) ==
    IF w.status = "err" /\ c.i = Len(c.list)
    THEN [c EXCEPT !.phase = "returned", !.res = "Err",
                   !.writes = Append(@, Written(bytes, w))]
    ELSE [c EXCEPT !.i = @ + 1, !.writes = Append(@, Written(bytes, w))]

\* The rest of the turn, the write having returned w: `.map_err(|_| ())?` returns
\* Err(()) from the call on an error, otherwise the value of the write is dropped
\* and the loop goes on to the next string.
LoopTurn(c, bytes, w) ==
    IF w.status = "err"
    THEN [c EXCEPT !.phase = "returned", !.res = "Err",
                   !.writes = Append(@, Written(bytes, w))]
    ELSE [c EXCEPT !.i = @ + 1, !.writes = Append(@, Written(bytes, w))]

\* write_strings_to, one turn of the loop: the string and a newline are written
\* to the stream behind the handle.  While the stream makes the writer wait, the
\* call stays where it is.
write_strings_to_write ==
    /\ call.op = "write_strings_to" /\ call.phase = "running"
    /\ call.i >= 1 /\ call.i <= Len(call.list)
    /\ call.o \in table /\ call.o = sink.ix
    /\ LET w == StreamWrite(sink, Offered(call)) IN
          /\ w.status # "pending"
          /\ sink' = w.sink
          /\ call' = LoopTurn(call, Offered(call), w)
          /\ active' = IF call'.phase = "returned" THEN active - 1 ELSE active
    /\ UNCHANGED <<State, inputs, table, hvars>>

\* The guest drops the stream before it returns.
write_strings_to_return_drops_stream ==
    /\ call.op = "write_strings_to" /\ call.phase = "running"
    /\ call.i > Len(call.list)
    /\ call' = [call EXCEPT !.phase = "returned", !.res = "Ok"]
    /\ active' = active - 1
    /\ table' = table \ {call.o}
    /\ sink' = [sink EXCEPT !.wopen = FALSE]
    /\ UNCHANGED <<State, inputs, hvars>>

\* write_strings_to, after the loop: Ok(()).
write_strings_to_return ==
    /\ call.op = "write_strings_to" /\ call.phase = "running"
    /\ call.i > Len(call.list)
    /\ call' = [call EXCEPT !.phase = "returned", !.res = "Ok"]
    /\ active' = active - 1
    /\ UNCHANGED <<State, inputs, sink, table, hvars>>

\* The guest body of pass_an_imported_record runs and the call returns.
pass_an_imported_record ==
    /\ call.op = "pass_an_imported_record" /\ call.phase = "running"
    /\ call' = [call EXCEPT !.phase = "returned",
                            !.str = pass_an_imported_record_result(call.stat)]
    /\ active' = active - 1
    /\ UNCHANGED <<State, inputs, sink, table, hvars>>

\* The guest runs the body of the call in progress.
GuestStep ==
    \/ add_strings
    \/ get_strings
    \/ write_strings_to_enter
    \/ write_strings_to_write
    \/ write_strings_to_return

\* The caller's .await on an export call: it goes on once the call has returned.
Awaited == call.phase = "returned"

--------------------------------------------------------------------------
(* The guest instance driven by any host: one export call after another *)

Init ==
    /\ State = <<>>
    /\ inputs = <<>>
    /\ call = Idle
    /\ active = 0
    /\ sink = NoSink
    /\ pc = "none"
    /\ reader = NoReader
    /\ frames = <<>>
    /\ prev = NoRecordCall
    /\ table = {}
    /\ trace = <<>>
    /\ result = "none"

CallAddStrings ==
    /\ Awaited
    /\ \E ss \in InputLists(MaxList) :
          /\ Len(State) + Len(ss) <= MaxStored
          /\ BeginCall("add_strings", ss)
    /\ UNCHANGED <<State, inputs, sink, table, hvars>>

CallGetStrings ==
    /\ Awaited
    /\ BeginCall("get_strings", <<>>)
    /\ UNCHANGED <<State, inputs, sink, table, hvars>>

\* The host pushes a fresh output stream and passes its handle to write_strings_to.
CallWriteStringsTo ==
    /\ Awaited
    /\ Cardinality(table) < MaxStreams
    /\ \E s \in {MemoryOutputPipe, DuplexPipe(PipeCap)} :
          LET p == push_output_stream(s, table) IN
             /\ sink' = p.sink
             /\ table' = p.table
             /\ BeginWriteStringsTo(p.sink.ix)
    /\ UNCHANGED <<State, inputs, hvars>>

\* The host's reader takes what is in the pipe.
HostRead ==
    /\ sink.kind = "pipe" /\ sink.ropen /\ sink.buf # <<>>
    /\ sink' = [sink EXCEPT !.buf = <<>>]
    /\ UNCHANGED <<State, inputs, call, active, table, hvars>>

\* The host drops the read end of the pipe.
HostDropReader ==
    /\ sink.kind = "pipe" /\ sink.ropen
    /\ sink' = [sink EXCEPT !.ropen = FALSE]
    /\ UNCHANGED <<State, inputs, call, active, table, hvars>>

\* The host passes the record of demo_wasi_structures.
CallPassTheDemoRecord ==
    /\ Awaited
    /\ active' = active + 1
    /\ call' = [Idle EXCEPT !.op = "pass_an_imported_record", !.phase = "running",
                            !.before = Len(State), !.arg = DemoStat,
                            !.expected = DebugStat(DemoStat),
                            !.stat = Lift(Lower(DemoStat))]
    /\ UNCHANGED <<State, inputs, sink, table, hvars>>

Next ==
    \/ CallAddStrings
    \/ CallGetStrings
    \/ CallWriteStringsTo
    \/ CallPassTheDemoRecord
    \/ GuestStep
    \/ pass_an_imported_record
    \/ HostRead
    \/ HostDropReader

Spec == Init /\ [][Next]_vars

--------------------------------------------------------------------------
(* The guest instance handed one stat record after another *)

\* The body of demo_wasi_structures for the record ds: the host renders ds, the
\* record is lowered into the call and lifted for the guest body.  The history
\* keeps one earlier call, so two calls reach every pair of records.
CallPassAnImportedRecord ==
    /\ Awaited
    /\ ~prev.made
    /\ \E ds \in StatPool :
          /\ active' = active + 1
          /\ call' = [Idle EXCEPT !.op = "pass_an_imported_record", !.phase = "running",
                                  !.before = Len(State), !.arg = ds,
                                  !.expected = DebugStat(ds), !.stat = Lift(Lower(ds))]
    /\ prev' = IF call.op = "pass_an_imported_record"
               THEN [made |-> TRUE, arg |-> call.arg, str |-> call.str]
               ELSE prev
    /\ UNCHANGED <<State, inputs, sink, pc, reader, frames, table, trace, result>>

RecordNext ==
    \/ CallPassAnImportedRecord
    \/ pass_an_imported_record

SpecRecord == Init /\ [][RecordNext]_vars

--------------------------------------------------------------------------
(* The guest instance handed strings with "$" in every place *)

CallAddDollarStrings ==
    /\ Awaited
    /\ \E ss \in DollarLists(MaxList) :
          /\ Len(State) + Len(ss) <= MaxStored
          /\ BeginCall("add_strings", ss)
    /\ UNCHANGED <<State, inputs, sink, table, hvars>>

DollarNext ==
    \/ CallAddDollarStrings
    \/ add_strings
    \/ CallGetStrings
    \/ get_strings

SpecDollar == Init /\ [][DollarNext]_vars

--------------------------------------------------------------------------
(* The harness: main, and the reader task of demo_async_output_stream *)

DuplexCap == 64

\* The buffer is kept after it has been printed.
ReaderTakes_keeps_buffer(r, fr) ==
    IF r.bs = Newline
    THEN [reader |-> r, frames |-> Append(fr, r.buffer)]
    ELSE [reader |-> [r EXCEPT !.buffer = Append(@, r.bs)], frames |-> fr]

\* The Ok arm of the reader's match on the byte bs it has read: a newline prints
\* the buffer as a frame and starts a new buffer, any other byte is pushed onto
\* the buffer.
ReaderTakes(r, fr) ==
    IF r.bs = Newline
    THEN [reader |-> [r EXCEPT !.buffer = <<>>], frames |-> Append(fr, r.buffer)]
    ELSE [reader |-> [r EXCEPT !.buffer = Append(@, r.bs)], frames |-> fr]

\* main records a step it takes (setup, an export call), and later how the step
\* came out.
Made(tr, op) == Append(tr, [op |-> op, outcome |-> "running"])

Closed(tr, outcome) == [tr EXCEPT ![Len(tr)].outcome = outcome]

\* `.await?` on the call, then the assert_eq! on its value: what an awaited call
\* came to.
Outcome(c, holds) ==
    IF c.failed THEN "error"
    ELSE IF holds THEN "ok" ELSE "assertion failed"

\* main goes on after a failed call or assertion as after a good one.
AfterCall_goes_on(outcome, next) == next

\* Where main stands after it: `?` returns the error from main, a failed
\* assert_eq! panics, otherwise main goes on to the next statement.
AfterCall(outcome, next) ==
    CASE outcome = "ok"               -> next
      [] outcome = "error"            -> "failed"
      [] outcome = "assertion failed" -> "panicked"

\* What main has ended with: Ok(()) is exit status 0, an error or a panic is not.
MainResult(p) ==
    CASE p = "returned" -> "Ok"
      [] p = "failed"   -> "Err"
      [] p = "panicked" -> "panic"
      [] OTHER          -> "none"

\* The store is dropped with main's frame: the table and the streams in it go.
DropStore(s) == [s EXCEPT !.wopen = FALSE]

HarnessInit ==
    /\ State = <<>>
    /\ inputs = <<>>
    /\ call = Idle
    /\ active = 0
    /\ sink = NoSink
    /\ pc = "setup"
    /\ reader = NoReader
    /\ frames = <<>>
    /\ prev = NoRecordCall
    /\ table = {}
    /\ trace = <<>>
    /\ result = "none"

\* setup(args).await?: the engine, the linker, the store and the instance are
\* made, or one of the steps fails and main returns its error.
MainSetup ==
    /\ pc = "setup"
    /\ \E o \in {"ok", "error"} :
          /\ trace' = Closed(Made(trace, "setup"), o)
          /\ pc' = AfterCall(o, "call_add_strings")
    /\ result' = MainResult(pc')
    /\ UNCHANGED <<State, inputs, call, active, sink, reader, frames, prev, table>>

\* An export call in progress ends in a call failure (a trap in the guest or in
\* an import): the typed invoker returns Err.
CallFails ==
    /\ call.phase = "running"
    /\ call' = [call EXCEPT !.phase = "returned", !.failed = TRUE]
    /\ active' = active - 1
    /\ UNCHANGED <<State, inputs, sink, table, hvars>>

MainCallAddStrings ==
    /\ pc = "call_add_strings"
    /\ BeginCall("add_strings", <<hello, d_GOOD_DOG>>)
    /\ pc' = "await_add_strings"
    /\ trace' = Made(trace, "add_strings")
    /\ UNCHANGED <<State, inputs, sink, reader, frames, prev, table, result>>

\* .await?, then assert_eq!(r, 2)
MainAssertAddStrings ==
    /\ pc = "await_add_strings"
    /\ Awaited
    /\ LET o == Outcome(call, call.n = 2) IN
          /\ trace' = Closed(trace, o)
          /\ pc' = AfterCall(o, "call_get_strings")
    /\ result' = MainResult(pc')
    /\ UNCHANGED <<State, inputs, call, active, sink, reader, frames, prev, table>>

\* get_strings is started without the await on add_strings.
MainCallGetStrings_without_await ==
    /\ pc \in {"await_add_strings", "call_get_strings"}
    /\ BeginCall("get_strings", <<>>)
    /\ pc' = "await_get_strings"
    /\ trace' = Made(trace, "get_strings")
    /\ UNCHANGED <<State, inputs, sink, reader, frames, prev, table, result>>

MainCallGetStrings ==
    /\ pc = "call_get_strings"
    /\ BeginCall("get_strings", <<>>)
    /\ pc' = "await_get_strings"
    /\ trace' = Made(trace, "get_strings")
    /\ UNCHANGED <<State, inputs, sink, reader, frames, prev, table, result>>

\* .await?, then assert_eq!(contents, &["hello", "gussie"])
MainAssertGetStrings ==
    /\ pc = "await_get_strings"
    /\ Awaited
    /\ LET o == Outcome(call, call.list = <<hello, gussie>>) IN
          /\ trace' = Closed(trace, o)
          /\ pc' = AfterCall(o, "demo_async_output_stream")
    /\ result' = MainResult(pc')
    /\ UNCHANGED <<State, inputs, call, active, sink, reader, frames, prev, table>>

\* demo_async_output_stream up to the call: the duplex pipe is made, the reader
\* task is spawned on its client end and the server end is pushed into the table.
MainSpawnReader ==
    /\ pc = "demo_async_output_stream"
    /\ LET p == push_output_stream(DuplexPipe(DuplexCap), table) IN
          /\ sink' = p.sink
          /\ table' = p.table
    /\ reader' = [NoReader EXCEPT !.st = "reading"]
    /\ pc' = "call_write_strings_to"
    /\ UNCHANGED <<State, inputs, call, active, frames, prev, trace, result>>

MainCallWriteStringsTo ==
    /\ pc = "call_write_strings_to"
    /\ BeginWriteStringsTo(sink.ix)
    /\ pc' = "await_write_strings_to"
    /\ trace' = Made(trace, "write_strings_to")
    /\ UNCHANGED <<State, inputs, sink, reader, frames, prev, table, result>>

\* .await?, then assert_eq!(r, Ok(())); main returns and the store, with the
\* table and the server end of the pipe in it, is dropped.
MainAssertWriteStringsTo ==
    /\ pc = "await_write_strings_to"
    /\ Awaited
    /\ LET o == Outcome(call, call.res = "Ok") IN
          /\ trace' = Closed(trace, o)
          /\ pc' = AfterCall(o, "returned")
    /\ result' = MainResult(pc')
    /\ sink' = DropStore(sink)
    /\ table' = {}
    /\ UNCHANGED <<State, inputs, call, active, reader, frames, prev>>

\* After main has ended the runtime is shut down: a reader task that waits in
\* read_exact is dropped there, one that is being polled first runs up to its
\* next read_exact.
RuntimeShutdown ==
    /\ pc \in {"returned", "panicked", "failed"}
    /\ reader.st # "matching"
    /\ pc' = "exited"
    /\ reader' = IF reader.st = "reading" THEN [reader EXCEPT !.st = "cancelled"]
                                          ELSE reader
    /\ UNCHANGED <<State, inputs, call, active, sink, frames, prev, table, trace, result>>

\* client.read_exact(&mut bs) returns Ok: one byte is taken from the pipe.
ReaderRead ==
    /\ reader.st = "reading"
    /\ sink.kind = "pipe" /\ sink.buf # <<>>
    /\ reader' = [reader EXCEPT !.st = "matching", !.bs = Head(sink.buf)]
    /\ sink' = [sink EXCEPT !.buf = Tail(@)]
    /\ UNCHANGED <<State, inputs, call, active, pc, frames, prev, table, trace, result>>

\* The Ok arm of the match, and back to the head of the loop.
ReaderMatch ==
    /\ reader.st = "matching"
    /\ LET r == ReaderTakes(reader, frames) IN
          /\ reader' = [r.reader EXCEPT !.st = "reading"]
          /\ frames' = r.frames
    /\ UNCHANGED <<State, inputs, call, active, sink, pc, prev, table, trace, result>>

\* client.read_exact(&mut bs) returns UnexpectedEof: the pipe is empty and its
\* write end is gone.  The buffer is printed, then "end of stream", and the task
\* ends.
ReaderEof ==
    /\ reader.st = "reading"
    /\ sink.kind = "pipe" /\ sink.buf = <<>> /\ ~sink.wopen
    /\ frames' = Append(frames, reader.buffer)
    /\ reader' = [reader EXCEPT !.st = "end of stream"]
    /\ UNCHANGED <<State, inputs, call, active, sink, pc, prev, table, trace, result>>

HarnessNext ==
    \/ MainSetup
    \/ CallFails
    \/ MainCallAddStrings
    \/ MainAssertAddStrings
    \/ MainCallGetStrings
    \/ MainAssertGetStrings
    \/ MainSpawnReader
    \/ MainCallWriteStringsTo
    \/ MainAssertWriteStringsTo
    \/ RuntimeShutdown
    \/ GuestStep
    \/ ReaderRead
    \/ ReaderMatch
    \/ ReaderEof

SpecHarness == HarnessInit /\ [][HarnessNext]_vars

--------------------------------------------------------------------------
(* Properties of add_strings and get_strings *)

\* The last export call was op, and it has returned.
Returned(op) == call.op = op /\ call.phase = "returned"

StartsWithDollar(s) == Len(s) > 0 /\ s[1] = Dollar
Bound(name)   == \E b \in Env : b.name = name
BoundDollar(s)   == StartsWithDollar(s) /\ Bound(Tail(s))
UnboundDollar(s) == StartsWithDollar(s) /\ ~Bound(Tail(s))

\* What the specification says one input string is stored as.
StoredFor(s) ==
    IF BoundDollar(s) THEN (CHOOSE b \in Env : b.name = Tail(s)).val
    ELSE IF UnboundDollar(s) THEN undefined
    ELSE s

\* C1: add_strings(ss) returns the number of strings the guest holds after the
\* call, which is the number it held before the call plus the length of ss.
C1_AddStringsReturnsTotal ==
    Returned("add_strings") =>
        /\ call.n = Len(State)
        /\ call.n = call.before + Len(call.ss)
        /\ (call.before = 0 /\ call.ss = <<hello, d_GOOD_DOG>>) => call.n = 2
        /\ (call.before = 0 /\ call.ss = <<d_NOPE>>) => call.n = 1

C1_Witness ==
    /\ Returned("add_strings")
    /\ call.before = 1
    /\ Len(call.ss) = 2
    /\ call.n = 3

\* C2: an input that starts with "$" and names a bound variable is stored as the
\* bound value, not as the input text; after add_strings(["hello", "$GOOD_DOG"]) on
\* a fresh instance get_strings returns ["hello", "gussie"].
C2_BoundVariableInterpolated ==
    /\ \A i \in 1..Len(inputs) :
          BoundDollar(inputs[i]) =>
             /\ i <= Len(State)
             /\ \E b \in Env : b.name = Tail(inputs[i]) /\ State[i] = b.val
             /\ State[i] # inputs[i]
    /\ (Returned("get_strings") /\ inputs = <<hello, d_GOOD_DOG>>)
          => call.list = <<hello, gussie>>

C2_Witness ==
    /\ Returned("get_strings")
    /\ inputs = <<hello, d_GOOD_DOG>>
    /\ call.list = <<hello, gussie>>

\* C3: an input that starts with "$" and names an unbound variable does not make
\* the call fail; it stores exactly one entry, "undefined", and that entry is
\* counted in the total returned.
C3_UnboundVariableUndefined ==
    Returned("add_strings") =>
        /\ Len(State) = call.before + Len(call.ss)
        /\ \A k \in 1..Len(call.ss) :
              UnboundDollar(call.ss[k]) =>
                 /\ State[call.before + k] = undefined
                 /\ call.n >= call.before + k
        /\ (call.before = 0 /\ call.ss = <<d_NOPE>>)
              => (call.n = 1 /\ State = <<undefined>>)

C3_Witness ==
    /\ Returned("add_strings")
    /\ call.ss = <<d_NOPE, hello>>
    /\ call.before = 1
    /\ State[2] = undefined
    /\ call.n = 3

\* C4: an input with no "$", or whose first "$" is not its first byte, is stored
\* unchanged; add_strings(["plain", "also$tail"]) on a fresh instance makes
\* get_strings return ["plain", "also$tail"].
C4_LiteralStoredUnchanged ==
    /\ \A i \in 1..Len(inputs) :
          ~StartsWithDollar(inputs[i]) => (i <= Len(State) /\ State[i] = inputs[i])
    /\ (Returned("get_strings") /\ inputs = <<plain, also_tail>>)
          => call.list = <<plain, also_tail>>

C4_Witness ==
    /\ Returned("get_strings")
    /\ inputs = <<plain, also_tail>>
    /\ call.list = <<plain, also_tail>>

\* C5: get_strings returns every stored entry exactly once, in the order the
\* inputs were given: call order across calls, list order within each call.
C5_GetStringsInInputOrder ==
    Returned("get_strings") =>
        /\ Len(call.list) = Len(inputs)
        /\ \A i \in 1..Len(inputs) : call.list[i] = StoredFor(inputs[i])

C5_Witness ==
    /\ Returned("get_strings")
    /\ Len(inputs) = 3
    /\ inputs[1] # inputs[2] /\ inputs[2] # inputs[3] /\ inputs[1] # inputs[3]
    /\ call.list[1] = StoredFor(inputs[1])
    /\ call.list[3] = StoredFor(inputs[3])

--------------------------------------------------------------------------
(* Properties of write_strings_to *)

\* Every string followed by a newline, in order.
RECURSIVE Lines(_)
Lines(list) == IF list = <<>> THEN <<>> ELSE Head(list) \o <<Newline>> \o Lines(Tail(list))

\* C6: when write_strings_to returns Ok, the bytes the sink has received from the
\* call are the stored strings in stored order, each followed by one newline.
C6_SinkReceivesEveryLine ==
    (Returned("write_strings_to") /\ call.res = "Ok") => sink.recv = Lines(State)

\* C8: with ["hello", "gussie"] stored and a fresh memory pipe, after
\* write_strings_to returns Ok the pipe's contents are the bytes hellogussie.
C8_MemoryPipeHoldsConcatenation ==
    ( /\ Returned("write_strings_to") /\ call.res = "Ok"
      /\ sink.kind = "memory"
      /\ State = <<hello, gussie>> )
    => sink.recv = hello \o gussie

--------------------------------------------------------------------------
(* Properties of the harness *)

IsPrefix(s, u) == Len(s) <= Len(u) /\ SubSeq(u, 1, Len(s)) = s

\* What the reader prints in a full run: a frame per newline, and at the end of
\* the stream the rest of its buffer, which is empty.
AllFrames == <<hello, gussie, <<>>>>

\* C7, as claimed: once write_strings_to has completed, the reader has observed
\* the frames "hello" then "gussie", followed by end-of-stream.
C7_ReaderDoneWhenWriteCompletes ==
    Returned("write_strings_to") =>
        /\ Len(frames) >= 2 /\ frames[1] = hello /\ frames[2] = gussie
        /\ reader.st = "end of stream"

\* The frames the reader has printed at a newline: all it has printed, less the
\* rest of the buffer that it prints when the stream ends.
NewlineFrames ==
    IF reader.st = "end of stream" THEN SubSeq(frames, 1, Len(frames) - 1) ELSE frames

\* C7, amended: the frames the reader has printed at newlines are at every moment
\* a prefix of "hello", "gussie"; it reports end-of-stream only after main has
\* ended and the store with the write end of the pipe is dropped; and when it
\* reports end-of-stream after write_strings_to returned Ok, it has observed
\* "hello" then "gussie", in that order, and then the empty rest of its buffer.
C7_FramesInOrder ==
    /\ IsPrefix(NewlineFrames, <<hello, gussie>>)
    /\ reader.st = "end of stream" =>
          /\ ~sink.wopen
          /\ pc \in {"returned", "panicked", "failed", "exited"}
    /\ (reader.st = "end of stream" /\ Returned("write_strings_to") /\ call.res = "Ok")
          => frames = AllFrames

C7_Witness ==
    /\ reader.st = "end of stream"
    /\ frames = <<hello, gussie, <<>>>>
    /\ pc = "exited"

\* C10: at no point are two export calls in progress on the store; an export
\* call is in progress exactly while the one call the harness awaits is running,
\* also while the reader task runs.
C10_OneCallAtATime ==
    /\ active \in {0, 1}
    /\ active = 1 <=> call.phase = "running"
    /\ call.phase = "running" =>
          pc \in {"await_add_strings", "await_get_strings", "await_write_strings_to"}

C10_Witness ==
    /\ active = 1
    /\ call.op = "write_strings_to" /\ call.phase = "running" /\ call.i = 2
    /\ reader.st = "matching"
    /\ reader.buffer = <<"h", "e">>

--------------------------------------------------------------------------
(* Properties of the stream writes of write_strings_to *)

RECURSIVE Accepted(_)
\* The bytes the stream took from the writes ws, in the order of the writes.
Accepted(ws) ==
    IF ws = <<>> THEN <<>>
    ELSE SubSeq(Head(ws).bytes, 1, Head(ws).n) \o Accepted(Tail(ws))

\* The write j of the call took fewer bytes than it was offered, without an error.
ShortWrite(j) ==
    /\ call.writes[j].status = "ok"
    /\ call.writes[j].n < Len(call.writes[j].bytes)

C13_OneWritePerStoredString ==
    Returned("write_strings_to") => Len(call.writes) = Len(State)

\* C13: the stream writes of a write_strings_to call are, in order, those for
\* the first stored strings, one for each: the turn for string i begins when
\* i - 1 writes have returned, no write follows one that failed, and a call that
\* returns Ok has made one write for every stored string.  The bytes the sink has
\* received are the accepted parts of the writes in that order.
C13_WritesInStoredOrder ==
    call.op = "write_strings_to" =>
        /\ Len(call.writes) <= Len(State)
        /\ \A j \in 1..Len(call.writes) :
              /\ call.writes[j].bytes = State[j] \o <<Newline>>
              /\ j < Len(call.writes) => call.writes[j].status = "ok"
        /\ (call.phase = "running" /\ call.i >= 1) => Len(call.writes) = call.i - 1
        /\ (call.phase = "returned" /\ call.res = "Ok") =>
              /\ Len(call.writes) = Len(State)
              /\ \A j \in 1..Len(call.writes) : call.writes[j].status = "ok"
        /\ sink.recv = Accepted(call.writes)

C13_Witness ==
    /\ Returned("write_strings_to") /\ call.res = "Ok"
    /\ State = <<hello, gussie, willa>>
    /\ Len(call.writes) = 3
    /\ sink.kind = "pipe"
    /\ sink.recv = Lines(State)

\* C17: a stream write that took fewer bytes than offered, without an error, is
\* followed by the turn of the next string: the write after it offers the next
\* string and its newline and not what was left over, and when no write of the
\* call failed the call returns Ok.  The sink has received the accepted parts
\* only, fewer bytes than the lines of the strings written.
C17_ShortWriteNotRetried ==
    call.op = "write_strings_to" =>
        \A j \in 1..Len(call.writes) :
            ShortWrite(j) =>
                /\ call.phase = "running" => call.i = Len(call.writes) + 1
                /\ j < Len(call.writes) =>
                      call.writes[j + 1].bytes = Output(call.list[j + 1])
                /\ (call.phase = "returned" /\ call.writes[Len(call.writes)].status = "ok")
                      => call.res = "Ok"
                /\ sink.recv = Accepted(call.writes)
                /\ Len(sink.recv) < Len(Lines(SubSeq(call.list, 1, Len(call.writes))))

C17_Witness ==
    /\ Returned("write_strings_to") /\ call.res = "Ok"
    /\ Len(call.writes) = 3
    /\ ShortWrite(2) /\ call.writes[2].n > 0
    /\ ~ShortWrite(3)

\* C14: while main has not ended, the handle passed to write_strings_to is in
\* the store's table during the call and after the call has returned, it is the
\* handle of the stream the harness pushed, and the write end of that stream is
\* open: the call has neither removed the handle nor closed the sink.
C14_HandleOnlyBorrowed ==
    (call.op = "write_strings_to" /\ result = "none") =>
        /\ call.o \in table
        /\ call.o = sink.ix
        /\ sink.wopen

C14_Witness ==
    /\ pc = "await_write_strings_to"
    /\ Returned("write_strings_to") /\ call.res = "Ok"
    /\ table = {call.o}
    /\ sink.kind = "pipe" /\ sink.wopen

--------------------------------------------------------------------------
(* Properties of the stored sequence *)

\* C15: a step of get_strings, of write_strings_to (whether it goes on, returns
\* Ok or returns Err) or of pass_an_imported_record leaves the stored sequence as
\* it is, so that what get_strings would return is the same before and after;
\* and a get_strings call that has returned has returned the stored sequence,
\* so two calls in a row return equal lists.
C15_ReadersLeaveStateUnchanged ==
    [][ /\ (call.phase = "running" /\ call.op \in {"get_strings", "write_strings_to",
                                                  "pass_an_imported_record"})
            => /\ State' = State
               /\ get_strings_result(State') = get_strings_result(State)
        /\ call.phase = "returned" => State' = State
        /\ (call'.op = "get_strings" /\ call'.phase = "returned")
            => call'.list = State'
      ]_vars

C15_Witness ==
    /\ Returned("get_strings")
    /\ call.list = <<hello, gussie>>
    /\ State = <<hello, gussie>>
    /\ sink.kind = "pipe" /\ ~sink.ropen /\ sink.recv = hello \o <<Newline>>

\* C16: every step leaves the stored sequence as a prefix of the sequence after
\* the step: no entry is removed, moved or rewritten and the length does not go
\* down; the sequence grows only in a step of add_strings, past what it held
\* when the call began.
C16_StateAppendOnly ==
    [][ /\ IsPrefix(State, State')
        /\ Len(State') >= Len(State)
        /\ State' # State =>
              /\ call.op = "add_strings" /\ call.phase = "running"
              /\ Len(State) = call.before
      ]_vars

C16_Witness ==
    /\ Returned("add_strings")
    /\ call.before = 1 /\ call.ss = <<d_NOPE, plain>>
    /\ State = <<hello, undefined, plain>>

\* C18: every input string stands for exactly one stored entry, at its place in
\* the order of the inputs; for an input that begins with "$" the entry is the
\* value bound to everything after that first "$", further "$" included, and
\* "undefined" when that name, which is empty for the input "$", is not bound.
C18_SplitAtFirstDollarOnly ==
    /\ Len(State) = Len(inputs)
    /\ \A i \in 1..Len(inputs) :
          /\ StartsWithDollar(inputs[i]) =>
                State[i] = IF Bound(Tail(inputs[i]))
                           THEN (CHOOSE b \in Env : b.name = Tail(inputs[i])).val
                           ELSE undefined
          /\ State[i] = StoredFor(inputs[i])

C18_Witness ==
    /\ inputs = <<d_only, d_GOOD_DOG_d_x, dd_GOOD_DOG>>
    /\ State = <<undefined, undefined, undefined>>
    /\ Returned("add_strings")

\* The steps of main, in the order of its statements.
HarnessOrder == <<"setup", "add_strings", "get_strings", "write_strings_to">>

TraceOps == [i \in 1..Len(trace) |-> trace[i].op]

\* C11: the harness takes its steps in the fixed order setup, add_strings,
\* get_strings, write_strings_to, each after the one before came out well; main
\* ends with Ok only if every step was taken and came out well; a step that
\* fails (an error from setup or from a call, or a failed assertion) is the last
\* step taken and main ends with an error or a panic.
C11_FailureEndsTheRun ==
    /\ IsPrefix(TraceOps, HarnessOrder)
    /\ \A i \in 1..Len(trace) :
          /\ i < Len(trace) => trace[i].outcome = "ok"
          /\ trace[i].outcome \in {"error", "assertion failed"} =>
                /\ result \in {"Err", "panic"}
                /\ active = 0
    /\ result = "Ok" =>
          /\ TraceOps = HarnessOrder
          /\ \A i \in 1..Len(trace) : trace[i].outcome = "ok"
    /\ result # "none" =>
          /\ pc \in {"returned", "failed", "panicked", "exited"}
          /\ trace[Len(trace)].outcome # "running"

C11_Witness ==
    /\ pc = "exited"
    /\ result = "Err"
    /\ TraceOps = <<"setup", "add_strings", "get_strings">>
    /\ trace[3].outcome = "error"
    /\ State = <<hello, gussie>>

--------------------------------------------------------------------------
(* Properties of pass_an_imported_record *)

====
